---------------------------- MODULE Spec2Model ----------------------------
(***************************************************************************)
(* Model of the vds repository: create_vds (train alignment of the AGIPD   *)
(* modules and the two EPIX streams, composition of the virtual layouts)   *)
(* and the AGIPD dark calibration pass (AGIPDCalib).                       *)
(*                                                                         *)
(* Row and file indices are 0-based as in the Python source; a Python      *)
(* array is a TLA+ sequence, so element i of the source is a[i + 1].       *)
(***************************************************************************)
EXTENDS Integers, Sequences, FiniteSets, TLC

\* ------------------------------------------------------------------ bounds
\* Largest storage chunk size (rows) of a source dataset.
MaxChunk == 2
\* Largest number of image rows of a run, all AGIPD files together.
MaxRows == 3
\* Largest number of source files of a run, all streams together.
MaxFiles == 3

\* Module slots of the model (config.MODULES_NUM slots in the program).
ModuleIds == {0, 1}
\* Train IDs of the modelled run: it straddles the 16-bit boundary.
TrainIds == {65535, 65536}
\* Pulse IDs that occur in the source files.
PulseIds == {0, 1}
\* Values of conf_parser.pulse_ids that are modelled.
PulseSelections == {<<0>>, <<0, 1>>}
\* Run numbers.
RunNumbers == {42}
\* The two auxiliary streams.
EpixIds == {1, 2}
\* numpy's uint16 holds values modulo 2^16.
UINT16 == 65536

\* Calibration pass: largest raw sample of a pixel.
MaxSample == 1
\* Calibration pass: gain-state values of a pixel (the reference level is 1).
GainStates == {0, 1, 2}
\* Calibration pass: number of pixels of a module (MODULE_SHAPE in the program).
NumPixels == 2
\* Calibration pass: frames and modules of the composed dataset.
CalFrames == {0}
CalModules == {0}
\* Calibration pass: values of the reference offsets and of the bad-pixel flags.
OffsetValues == {0, 1}
\* config.HIGH_GAIN and config.MEDIUM_GAIN, the two gain branches.
HIGH_GAIN == 0
MEDIUM_GAIN == 1
\* config.HG_GAIN = 1 / 68.8 and config.MG_GAIN = 1 / 1.376 in units of 1 / 688.
HG_GAIN == 10
MG_GAIN == 500
\* AGIPDCalib.FLAT_ROI = (0, 10): the slice taken of the module axis.
FLAT_ROI_START == 0
FLAT_ROI_STOP == 10

VARIABLES
    run_number,     \* argument of create_vds
    module_ids,     \* the modules the configuration lists (ConfigParser._init_data)
    pulse_ids,      \* conf_parser.pulse_ids
    modules_mask,   \* conf_parser.modules_mask (mutated by process_agipd)
    fs,             \* the source files on disk: [agipd, epix, chunk]
    pc,             \* position in create_vds
    err,            \* the exception that ended the run, or "none"
    e_trains,       \* e1_trains / e2_trains: [bound, trains] per EPIX id
    agipd_data,     \* the agipd_data dictionary: [bound, trains, modules, descriptor, trains_size]
    out,            \* the output HDF5 file
    loop,           \* locals of save_agipd / save_epix: loop position, counter, layouts
    cal             \* state of the calibration pass (AGIPDCalib)

vars == <<run_number, module_ids, pulse_ids, modules_mask, fs, pc, err, e_trains,
          agipd_data, out, loop, cal>>

\* ----------------------------------------------------------- array helpers
SeqToSet(s) == {s[i] : i \in DOMAIN s}

Min(S) == CHOOSE x \in S : \A y \in S : x <= y

RECURSIVE SortSet(_)
\* The elements of a finite set of integers in ascending order.
SortSet(S) == IF S = {} THEN <<>> ELSE <<Min(S)>> \o SortSet(S \ {Min(S)})

RECURSIVE Concatenate(_)
\* np.concatenate of a list of 1-d arrays.
Concatenate(ss) == IF ss = <<>> THEN <<>> ELSE Head(ss) \o Concatenate(Tail(ss))

\* np.intersect1d(a, b): the sorted unique values common to both arrays.
Intersect1d(a, b) == SortSet(SeqToSet(a) \cap SeqToSet(b))

\* Index (0-based) of the first occurrence of v in array b.
FirstIndex(b, v) == Min({i \in DOMAIN b : b[i] = v}) - 1

\* np.intersect1d(a, b, return_indices=True)[2]: for every common value, in
\* ascending order, the index of its first occurrence in b.
Intersect1dIndices(a, b) ==
    LET common == Intersect1d(a, b)
    IN  [k \in DOMAIN common |-> FirstIndex(b, common[k])]

\* b[idxs] for an index array idxs (0-based).
Take(b, idxs) == [k \in DOMAIN idxs |-> b[idxs[k] + 1]]

\* Python slice a[start:end] of a sequence (0-based, clipped to the length).
Slice(a, start, end) ==
    LET hi == IF end < Len(a) THEN end ELSE Len(a)
    IN  IF start >= hi THEN <<>> ELSE SubSeq(a, start + 1, hi)

\* np.isin(a, b): membership mask of a in b.
IsIn(a, b) == [i \in DOMAIN a |-> a[i] \in SeqToSet(b)]

\* np.nonzero(mask)[0]: the 0-based positions where mask is true, ascending.
Nonzero(mask) == SortSet({i - 1 : i \in {j \in DOMAIN mask : mask[j]}})

\* np.ceil(k / c) for k >= 0, c >= 1.
CeilDiv(k, c) == (k + c - 1) \div c

\* ------------------------------------------------------------ source files
\* Lexicographic order on (train, pulse) rows.
RowLess(r, q) == r[1] < q[1] \/ (r[1] = q[1] /\ r[2] < q[2])

MinRow(S) == CHOOSE r \in S : \A q \in S : r = q \/ RowLess(r, q)

RECURSIVE SortRows(_)
SortRows(S) == IF S = {} THEN <<>> ELSE <<MinRow(S)>> \o SortRows(S \ {MinRow(S)})

\* An AGIPD module file holding the (train, pulse) rows S in acquisition
\* order. index is INDEX/trainId, header is <module>/header/trainId; trains,
\* pulses and cells are the per-row image datasets (the memory cell of a
\* frame is its pulse number). hdr tells whether the header table was
\* written; the data array has as many rows as the image index datasets.
AgipdFile(S, hdr) ==
    LET rows == SortRows(S)
        idx  == SortSet({r[1] : r \in S})
    IN  [index  |-> idx,
         header |-> IF hdr THEN idx ELSE <<>>,
         trains |-> [i \in DOMAIN rows |-> rows[i][1]],
         pulses |-> [i \in DOMAIN rows |-> rows[i][2]],
         cells  |-> [i \in DOMAIN rows |-> rows[i][2]]]

\* AGIPD files of at most r image rows. Files without a header table are
\* modelled with one image row.
AgipdFiles(r) ==
    {AgipdFile(S, TRUE) : S \in {R \in SUBSET (TrainIds \X PulseIds) : Cardinality(R) <= r}}
    \cup {AgipdFile(S, FALSE) :
            S \in {R \in SUBSET (TrainIds \X PulseIds) : Cardinality(R) = 1 /\ r >= 1}}

RECURSIVE AgipdFileLists(_, _)
\* Lists of at most n AGIPD files (a sorted glob result) that hold at most r
\* image rows together.
AgipdFileLists(n, r) ==
    IF n = 0 THEN {<<>>}
    ELSE {<<>>} \cup UNION {{<<f>> \o l : l \in AgipdFileLists(n - 1, r - Len(f.trains))} :
                              f \in AgipdFiles(r)}

\* An EPIX file: one data row per entry of INDEX/trainId.
EpixFiles == {[index |-> SortSet(S)] : S \in SUBSET TrainIds}

\* Lists of at most n EPIX files.
EpixFileLists(n) == UNION {[1 .. k -> EpixFiles] : k \in 0 .. n}

\* The files of AGIPD module m on disk, at most n of them with at most r
\* image rows. The files of a module that is not configured are never
\* opened: only the existence of module 0's files is looked at (create_vds,
\* the glob for module 0), so one file stands for them.
ModuleFileLists(mask, m, n, r) ==
    IF mask[m] = 1 THEN AgipdFileLists(n, r)
    ELSE IF m = 0 /\ n > 0 THEN {<<>>, <<AgipdFile({}, TRUE)>>}
    ELSE {<<>>}

RECURSIVE NumRows(_)
\* The image rows of a list of AGIPD files.
NumRows(files) ==
    IF files = <<>> THEN 0 ELSE Len(Head(files).trains) + NumRows(Tail(files))

\* ------------------------------------------------------------------- state
NoError == [type |-> "none", run |-> -1]

NoTrains == [bound |-> FALSE, trains |-> <<>>]

\* agipd_data before process_agipd has run: the name is unbound.
NoAgipd == [bound |-> FALSE, trains |-> <<>>, modules |-> <<>>,
            descriptor |-> <<>>, trains_size |-> 0]

DatasetKeys == {"data", "gain", "epix1", "epix2"}

NoDataset == [committed |-> FALSE, shape |-> 0, entries |-> <<>>]

NoOutput == [created |-> FALSE, closed |-> FALSE, index_trainId |-> <<>>,
             moduleId |-> <<>>, frames |-> 0, train_dset |-> <<>>,
             pulse_dset |-> <<>>, cell_dset |-> <<>>,
             vds |-> [k \in DatasetKeys |-> NoDataset]]

NoLoop == [stage |-> "none", idx |-> 0, file |-> 0, counter |-> 0, data_layout |-> <<>>,
           gain_layout |-> <<>>, layout |-> <<>>]

NoCalib == [phase |-> "off"]

\* ConfigParser._init_data: modules_mask is zero but for the listed modules.
MaskOf(ids) == [m \in ModuleIds |-> IF m \in ids THEN 1 ELSE 0]

Init ==
    /\ run_number \in RunNumbers
    /\ pulse_ids \in PulseSelections
    /\ module_ids \in SUBSET ModuleIds
    /\ modules_mask = MaskOf(module_ids)
    /\ \E chunk \in 1 .. MaxChunk :
       \E a0 \in ModuleFileLists(modules_mask, 0, MaxFiles, MaxRows) :
       \E a1 \in ModuleFileLists(modules_mask, 1, MaxFiles - Len(a0), MaxRows - NumRows(a0)) :
       \E e1 \in EpixFileLists(MaxFiles - Len(a0) - Len(a1)) :
       \E e2 \in EpixFileLists(MaxFiles - Len(a0) - Len(a1) - Len(e1)) :
          fs = [agipd |-> (0 :> a0) @@ (1 :> a1),
                epix  |-> (1 :> e1) @@ (2 :> e2),
                chunk |-> chunk]
    /\ pc = "start"
    /\ err = NoError
    /\ e_trains = [n \in EpixIds |-> NoTrains]
    /\ agipd_data = NoAgipd
    /\ out = NoOutput
    /\ loop = NoLoop
    /\ cal = NoCalib

\* The sorted glob results of create_vds.
e_descriptor(n) == fs.epix[n]

agipd_descriptor == fs.agipd[0]

\* raise: the run ends with the exception.
Raise(type, run) ==
    /\ pc' = "failed"
    /\ err' = [type |-> type, run |-> run]

\* ---------------------------------------------------------------- alignment
\* process_epix: the concatenated INDEX/trainId of the stream's files.
process_epix(descriptor) ==
    Concatenate([k \in DOMAIN descriptor |-> descriptor[k].index])

\* process_module: per file, the intersection of INDEX/trainId with the
\* module's header trainId; the per-file results concatenated.
process_module(descriptor) ==
    Concatenate([k \in DOMAIN descriptor |->
                    Intersect1d(descriptor[k].index, descriptor[k].header)])

RECURSIVE ReduceIntersect(_)
\* functools.reduce(np.intersect1d, arrays) for a non-empty list: a list of
\* one array yields that array unchanged.
ReduceIntersect(arrays) ==
    IF Len(arrays) = 1 THEN arrays[1]
    ELSE Intersect1d(ReduceIntersect(SubSeq(arrays, 1, Len(arrays) - 1)),
                     arrays[Len(arrays)])

\* process_agipd, the loop over modules_mask: the configured modules that
\* have files, ascending.
ModulesWithFiles(mask) ==
    SortSet({m \in ModuleIds : mask[m] = 1 /\ fs.agipd[m] # <<>>})

\* process_agipd, the else branch: a configured module without files has
\* its mask entry cleared.
ClearedMask(mask) ==
    [m \in ModuleIds |-> IF mask[m] = 1 /\ fs.agipd[m] = <<>> THEN 0 ELSE mask[m]]

\* np.arange(MODULES_NUM)[modules_mask == 1]
ActiveModules(mask) == SortSet({m \in ModuleIds : mask[m] = 1})

RECURSIVE SumSizes(_)
SumSizes(arrays) ==
    IF arrays = <<>> THEN 0 ELSE Len(Head(arrays)) + SumSizes(Tail(arrays))

\* The agipd_data dictionary process_agipd returns. descriptor lists, per
\* entry, the module whose sorted file list it holds.
process_agipd(mask) ==
    LET mods         == ModulesWithFiles(mask)
        agipd_trains == [k \in DOMAIN mods |-> process_module(fs.agipd[mods[k]])]
    IN  [bound       |-> TRUE,
         trains      |-> ReduceIntersect(agipd_trains),
         modules     |-> ActiveModules(ClearedMask(mask)),
         descriptor  |-> mods,
         trains_size |-> SumSizes(agipd_trains)]

\* create_vds up to the AGIPD block: the globs, process_epix for each EPIX
\* stream that has files, process_agipd when module 0 has files.
Discover ==
    /\ pc = "start"
    /\ e_trains' = [n \in EpixIds |->
                      IF e_descriptor(n) # <<>>
                      THEN [bound |-> TRUE, trains |-> process_epix(e_descriptor(n))]
                      ELSE NoTrains]
    /\ IF agipd_descriptor = <<>>
       THEN /\ pc' = "check"
            /\ UNCHANGED <<modules_mask, agipd_data, err>>
       ELSE /\ modules_mask' = ClearedMask(modules_mask)
            /\ IF ModulesWithFiles(modules_mask) = <<>>
               THEN \* reduce() of an empty sequence with no initial value
                    /\ Raise("TypeError", -1)
                    /\ UNCHANGED agipd_data
               ELSE /\ agipd_data' = process_agipd(modules_mask)
                    /\ pc' = "check"
                    /\ UNCHANGED err
    /\ UNCHANGED <<run_number, module_ids, pulse_ids, fs, out, loop, cal>>

\* The test with one "not" dropped.
NoFilesAgipdOnly ==
    e_descriptor(1) = <<>> /\ e_descriptor(2) = <<>> /\ agipd_descriptor # <<>>

\* The "bad run number" test of create_vds.
NoFiles == e_descriptor(1) = <<>> /\ e_descriptor(2) = <<>> /\ agipd_descriptor = <<>>

\* create_vds, "# Bad run number": the error names the run; otherwise the
\* file counts are printed, which reads agipd_data.
CheckFiles ==
    /\ pc = "check"
    /\ IF NoFiles
       THEN Raise("ValueError", run_number)
       ELSE IF ~agipd_data.bound
            THEN Raise("NameError", -1)
            ELSE pc' = "intersect_1" /\ UNCHANGED err
    /\ UNCHANGED <<run_number, module_ids, pulse_ids, modules_mask, fs, e_trains,
                   agipd_data, out, loop, cal>>

\* create_vds, "# Intersect AGIPD and EPIX", for EPIX stream n: the aligned
\* trains become the intersection, the stream's trains are re-indexed by the
\* indices intersect1d returns.
IntersectEpix(n) ==
    IF agipd_descriptor # <<>> /\ e_descriptor(n) # <<>>
    THEN /\ agipd_data' = [agipd_data EXCEPT
                             !.trains = Intersect1d(@, e_trains[n].trains)]
         /\ e_trains' = [e_trains EXCEPT
                           ![n].trains = Take(@, Intersect1dIndices(agipd_data.trains, @))]
    ELSE UNCHANGED <<agipd_data, e_trains>>

Intersect1 ==
    /\ pc = "intersect_1"
    /\ IntersectEpix(1)
    /\ pc' = "intersect_2"
    /\ UNCHANGED <<run_number, module_ids, pulse_ids, modules_mask, fs, err, out, loop, cal>>

Intersect2 ==
    /\ pc = "intersect_2"
    /\ IntersectEpix(2)
    /\ pc' = "print"
    /\ UNCHANGED <<run_number, module_ids, pulse_ids, modules_mask, fs, err, out, loop, cal>>

\* create_vds, "# Print information": the summary divides by the number of
\* active modules and reads the first and the last aligned train.
PrintInfo ==
    /\ pc = "print"
    /\ IF Len(agipd_data.modules) = 0
       THEN Raise("ZeroDivisionError", -1)
       ELSE IF Len(agipd_data.trains) = 0
            THEN Raise("IndexError", -1)
            ELSE pc' = "open" /\ UNCHANGED err
    /\ UNCHANGED <<run_number, module_ids, pulse_ids, modules_mask, fs, e_trains,
                   agipd_data, out, loop, cal>>

\* ------------------------------------------------------------- composition
\* create_vds, "# Save data": the output file is created and the run-level
\* datasets are written.
OpenOutput ==
    /\ pc = "open"
    /\ out' = [out EXCEPT !.created = TRUE,
                          !.index_trainId = agipd_data.trains,
                          !.moduleId = agipd_data.modules]
    /\ pc' = "save_agipd"
    /\ UNCHANGED <<run_number, module_ids, pulse_ids, modules_mask, fs, err, e_trains,
                   agipd_data, loop, cal>>

\* A dataset of n rows that nothing was written to reads as zeros.
Zeros(n) == [i \in 1 .. n |-> 0]

\* save_agipd, before the loop over the modules: the declared number of
\* frames, the three per-row index datasets and the two empty layouts.
SaveAgipdBegin ==
    /\ pc = "save_agipd"
    /\ IF agipd_descriptor # <<>>
       THEN LET frames == Len(agipd_data.trains) * Len(pulse_ids)
            IN  /\ out' = [out EXCEPT !.frames = frames,
                                      !.train_dset = Zeros(frames),
                                      !.pulse_dset = Zeros(frames),
                                      !.cell_dset = Zeros(frames)]
                /\ loop' = [NoLoop EXCEPT !.stage = "agipd"]
                /\ pc' = "agipd_file"
       ELSE /\ pc' = "save_epix_1"
            /\ UNCHANGED <<out, loop>>
    /\ UNCHANGED <<run_number, module_ids, pulse_ids, modules_mask, fs, err, e_trains,
                   agipd_data, cal>>

\* save_agipd: the rows of a file whose train is aligned and whose pulse is
\* selected (0-based, ascending).
file_idxs_agipd(f, trains, pulses) ==
    LET train_mask == IsIn(f.trains, trains)
        pulse_mask == IsIn(f.pulses, pulses)
    IN  Nonzero([i \in DOMAIN f.trains |-> train_mask[i] /\ pulse_mask[i]])

\* save_epix: for every train passed in, in that order, the rows of the file
\* that carry it.
file_idxs_epix(f, trains) ==
    Concatenate([k \in DOMAIN trains |->
                    SortSet({i - 1 : i \in {j \in DOMAIN f.index : f.index[j] = trains[k]}})])

\* num_chunks rounded down instead of up.
NumChunksFloor(size, chunk_size) == size \div chunk_size

\* num_chunks of the chunk loop.
NumChunks(size, chunk_size) == CeilDiv(size, chunk_size)

\* start and end of the chunk loop, for chunk = 0, 1, ...
ChunkStart(chunk, chunk_size) == chunk * chunk_size

ChunkEnd(chunk, chunk_size, shape0) ==
    IF shape0 < (chunk + 1) * chunk_size THEN shape0 ELSE (chunk + 1) * chunk_size

\* The row lists file_idxs[start:end] the chunk loop binds, in order.
ChunkRows(file_idxs, chunk_size, shape0) ==
    [c \in 1 .. NumChunks(Len(file_idxs), chunk_size) |->
        Slice(file_idxs, ChunkStart(c - 1, chunk_size),
              ChunkEnd(c - 1, chunk_size, shape0))]

\* The counter with "counter += file_idxs[start:end].size" left out.
CounterStuck(counter, rows, n) == counter

\* The value of counter after the first n bindings of the chunk loop.
CounterAfter(counter, rows, n) == counter + SumSizes(SubSeq(rows, 1, n))

\* layout[counter:counter + size, idx] = VirtualSource(file_data)[rows, channel]:
\* one mapping entry. offset is the first output row, slot the column slot,
\* stream what kind of source it is, module and file name the source file.
Binding(stream, slot, module, file, channel, offset, rows) ==
    [stream |-> stream, slot |-> slot, module |-> module, file |-> file,
     channel |-> channel, offset |-> offset, rows |-> rows]

\* The entries the chunk loop of save_agipd adds to data_layout for one file.
DataBindings(slot, module, file, counter, rows) ==
    [c \in DOMAIN rows |->
        Binding("agipd", slot, module, file, 0, CounterAfter(counter, rows, c - 1), rows[c])]

\* The gain entries bound at the counter as it was before the chunk loop.
GainBindingsStale(slot, module, file, counter, rows) ==
    [c \in DOMAIN rows |-> Binding("agipd", slot, module, file, 1, counter, rows[c])]

\* The entries the chunk loop of save_agipd adds to gain_layout for one file.
GainBindings(slot, module, file, counter, rows) ==
    [c \in DOMAIN rows |->
        Binding("agipd", slot, module, file, 1, CounterAfter(counter, rows, c - 1), rows[c])]

\* The entries the chunk loop of save_epix adds to layout for one file.
EpixBindings(n, file, counter, rows) ==
    [c \in DOMAIN rows |->
        Binding("epix", 0, n, file, 0, CounterAfter(counter, rows, c - 1), rows[c])]

\* dset[counter:counter + Len(values)] = values, inside the dataset.
WriteAt(dset, counter, values) ==
    [i \in DOMAIN dset |->
        IF i > counter /\ i <= counter + Len(values) THEN values[i - counter] ELSE dset[i]]

\* Storing into a dataset of dtype uint16 with the array cast by numpy keeps
\* the value modulo 2^16.
AsUint16(values) == [i \in DOMAIN values |-> values[i] % UINT16]

\* Storing into a dataset of dtype uint16 with the conversion left to HDF5
\* keeps the largest 16-bit value for a value out of range.
ClampUint16(values) ==
    [i \in DOMAIN values |-> IF values[i] >= UINT16 THEN UINT16 - 1 ELSE values[i]]

\* What dset[...] = values leaves in a uint16 dataset: which of the two
\* conversions acts depends on the h5py release.
StoredUint16(values) == {AsUint16(values), ClampUint16(values)}

\* The module and the file the loops of save_agipd stand at.
CurModule == agipd_data.modules[loop.idx + 1]

CurFiles == fs.agipd[agipd_data.descriptor[loop.idx + 1]]

\* zip(modules, descriptor) ends with the shorter of the two.
NumSlots ==
    IF Len(agipd_data.modules) < Len(agipd_data.descriptor)
    THEN Len(agipd_data.modules) ELSE Len(agipd_data.descriptor)

\* The position of the loops of save_agipd after the current file: the next
\* file, or the first file of the next module with counter = 0.
NextFile(counter) ==
    IF loop.file + 1 < Len(CurFiles)
    THEN [loop EXCEPT !.file = @ + 1, !.counter = counter]
    ELSE [loop EXCEPT !.idx = @ + 1, !.file = 0, !.counter = 0]

\* save_agipd, one pass of the loop over the files of a module: the index
\* datasets are written at the counter, then every chunk of the selected
\* rows is bound in both layouts. Writing more rows than the dataset has
\* left fails (h5py cannot broadcast the values to the clipped selection).
SaveAgipdFile ==
    /\ pc = "agipd_file"
    /\ loop.idx < NumSlots
    /\ LET f         == CurFiles[loop.file + 1]
           file_idxs == file_idxs_agipd(f, agipd_data.trains, pulse_ids)
           rows      == ChunkRows(file_idxs, fs.chunk, Len(f.trains))
           counter   == CounterAfter(loop.counter, rows, Len(rows))
       IN  IF Len(f.trains) = 0
           THEN /\ loop' = NextFile(loop.counter)
                /\ UNCHANGED <<out, pc, err>>
           ELSE IF loop.counter + Len(file_idxs) > out.frames
           THEN /\ Raise("TypeError", -1)
                /\ UNCHANGED <<out, loop>>
           ELSE /\ \E trains \in StoredUint16(Take(f.trains, file_idxs)),
                      cells \in StoredUint16(Take(f.cells, file_idxs)) :
                      out' = [out EXCEPT
                                !.train_dset = WriteAt(@, loop.counter, trains),
                                !.pulse_dset = WriteAt(@, loop.counter, Take(f.pulses, file_idxs)),
                                !.cell_dset  = WriteAt(@, loop.counter, cells)]
                /\ loop' = [NextFile(counter) EXCEPT
                    !.data_layout = @ \o DataBindings(loop.idx, CurModule, loop.file,
                                                      loop.counter, rows),
                    !.gain_layout = @ \o GainBindings(loop.idx, CurModule, loop.file,
                                                      loop.counter, rows)]
                /\ UNCHANGED <<pc, err>>
    /\ UNCHANGED <<run_number, module_ids, pulse_ids, modules_mask, fs, e_trains,
                   agipd_data, cal>>

\* Whether every entry of a layout lies inside a dataset of shape rows.
InsideShape(entries, shape) ==
    \A k \in DOMAIN entries : entries[k].offset + Len(entries[k].rows) <= shape

\* out_file.create_virtual_dataset(key, layout) for a layout of shape rows.
Commit(vds, key, shape, entries) ==
    [vds EXCEPT ![key] = [committed |-> TRUE, shape |-> shape, entries |-> entries]]

\* save_agipd, after the loops: both layouts are committed.
SaveAgipdCommit ==
    /\ pc = "agipd_file"
    /\ loop.idx >= NumSlots
    /\ out' = [out EXCEPT !.vds = Commit(Commit(@, "data", out.frames, loop.data_layout),
                                         "gain", out.frames, loop.gain_layout)]
    /\ pc' = "save_epix_1"
    /\ UNCHANGED <<run_number, module_ids, pulse_ids, modules_mask, fs, err, e_trains,
                   agipd_data, loop, cal>>

EpixKey(n) == IF n = 1 THEN "epix1" ELSE "epix2"

\* The condition under which create_vds calls save_epix for stream n.
SaveEpixGuard(n) == e_descriptor(1) # <<>>

\* Where create_vds goes on after the save block of stream n.
AfterEpix(n) == IF n = 1 THEN "save_epix_2" ELSE "close"

\* create_vds, "# EPIX-1" and "# EPIX-2" of the save block, and the first
\* lines of save_epix: evaluating the arguments reads e<n>_trains.
SaveEpixBegin(n) ==
    /\ pc = (IF n = 1 THEN "save_epix_1" ELSE "save_epix_2")
    /\ IF ~SaveEpixGuard(n)
       THEN /\ pc' = AfterEpix(n)
            /\ UNCHANGED <<loop, err>>
       ELSE IF ~e_trains[n].bound
       THEN /\ Raise("NameError", -1)
            /\ UNCHANGED loop
       ELSE /\ loop' = [NoLoop EXCEPT !.stage = "epix", !.idx = n]
            /\ pc' = "epix_file"
            /\ UNCHANGED err
    /\ UNCHANGED <<run_number, module_ids, pulse_ids, modules_mask, fs, e_trains,
                   agipd_data, out, cal>>

\* save_epix, one pass of the loop over the files. np.concatenate of an
\* empty list (no train passed in) raises ValueError.
SaveEpixFile ==
    /\ pc = "epix_file"
    /\ loop.file < Len(e_descriptor(loop.idx))
    /\ LET n         == loop.idx
           f         == e_descriptor(n)[loop.file + 1]
           trains    == e_trains[n].trains
           file_idxs == file_idxs_epix(f, trains)
           rows      == ChunkRows(file_idxs, fs.chunk, Len(f.index))
       IN  IF trains = <<>>
           THEN /\ Raise("ValueError", -1)
                /\ UNCHANGED loop
           ELSE /\ loop' = [loop EXCEPT
                    !.file = @ + 1,
                    !.counter = CounterAfter(@, rows, Len(rows)),
                    !.layout = @ \o EpixBindings(n, loop.file, loop.counter, rows)]
                /\ UNCHANGED <<pc, err>>
    /\ UNCHANGED <<run_number, module_ids, pulse_ids, modules_mask, fs, e_trains,
                   agipd_data, out, cal>>

\* save_epix, after the loop: the layout, declared with one row per train
\* passed in, is committed. HDF5 refuses a mapping whose output selection,
\* clipped to the declared shape, has fewer elements than its source selection.
SaveEpixCommit ==
    /\ pc = "epix_file"
    /\ loop.file >= Len(e_descriptor(loop.idx))
    /\ LET shape == Len(e_trains[loop.idx].trains)
       IN  IF InsideShape(loop.layout, shape)
           THEN /\ out' = [out EXCEPT
                             !.vds = Commit(@, EpixKey(loop.idx), shape, loop.layout)]
                /\ pc' = AfterEpix(loop.idx)
                /\ UNCHANGED err
           ELSE /\ Raise("ValueError", -1)
                /\ UNCHANGED out
    /\ UNCHANGED <<run_number, module_ids, pulse_ids, modules_mask, fs, e_trains,
                   agipd_data, loop, cal>>

\* out_file.close() and the return of create_vds.
CloseOutput ==
    /\ pc = "close"
    /\ out' = [out EXCEPT !.closed = TRUE]
    /\ pc' = "done"
    /\ UNCHANGED <<run_number, module_ids, pulse_ids, modules_mask, fs, err, e_trains,
                   agipd_data, loop, cal>>

Next ==
    \/ Discover
    \/ CheckFiles
    \/ Intersect1
    \/ Intersect2
    \/ PrintInfo
    \/ OpenOutput
    \/ SaveAgipdBegin
    \/ SaveAgipdFile
    \/ SaveAgipdCommit
    \/ SaveEpixBegin(1)
    \/ SaveEpixBegin(2)
    \/ SaveEpixFile
    \/ SaveEpixCommit
    \/ CloseOutput

Spec == Init /\ [][Next]_vars

\* -------------------------------------------------------------- calibration
\* AGIPDCalib works on arrays indexed by (frame, module, pixel); REF indexes
\* the reference tables by (module, pixel). Analog differences are kept in
\* units of 1 / NumPixels so that the mean over the pixels of a module is an
\* integer; calibrated values are in units of 1 / (688 * NumPixels).
Pixels == 0 .. NumPixels - 1

Cells == CalFrames \X CalModules \X Pixels

RefCells == CalModules \X Pixels

Branches == {HIGH_GAIN, MEDIUM_GAIN}

RECURSIVE SumOver(_, _)
\* The sum of f[x] for x in S.
SumOver(f, S) ==
    IF S = {} THEN 0
    ELSE LET x == CHOOSE y \in S : TRUE IN f[x] + SumOver(f, S \ {x})

\* AGIPDCalib._init_adu: the raw samples minus the reference offset of each
\* gain branch.
init_adu(c) ==
    [c EXCEPT !.adu = [g \in Branches |-> [x \in Cells |->
                          NumPixels * (c.data[x] - c.offset[g][<<x[2], x[3]>>])]]]

\* AGIPDCalib._flat_correct: zero_levels is the mean of the high-gain
\* differences over the pixels of each (frame, module) of the FLAT_ROI slice
\* of the module axis; it is subtracted from the high-gain branch.
zero_levels(c) ==
    [fm \in CalFrames \X {m \in CalModules : FLAT_ROI_START <= m /\ m < FLAT_ROI_STOP} |->
        SumOver([p \in Pixels |-> c.adu[HIGH_GAIN][<<fm[1], fm[2], p>>]], Pixels)
            \div NumPixels]

flat_correct(c) ==
    [c EXCEPT !.zero_levels = zero_levels(c),
              !.adu[HIGH_GAIN] = [x \in Cells |-> @[x] - zero_levels(c)[<<x[1], x[2]>>]]]

\* The mask thresholding the analog differences instead of the gain states.
init_mask_adu(c) ==
    [c EXCEPT !.mask = [g \in Branches |-> [x \in Cells |->
        (IF g = HIGH_GAIN
         THEN (IF c.adu[HIGH_GAIN][x] < c.gain_level[<<x[2], x[3]>>] THEN 1 ELSE 0)
         ELSE (IF c.adu[HIGH_GAIN][x] > c.gain_level[<<x[2], x[3]>>] THEN 1 ELSE 0))
        * (1 - c.badpixel[<<x[2], x[3]>>])]]]

\* AGIPDCalib._init_mask: a pixel counts for the high-gain branch when its
\* gain state is below the medium-gain level and for the medium-gain branch
\* when it is above; DarkAGIPD.bad_mask (mask_inv) is 1 - Badpixel.
init_mask(c) ==
    [c EXCEPT !.mask = [g \in Branches |-> [x \in Cells |->
        (IF g = HIGH_GAIN
         THEN (IF c.gain[x] < c.gain_level[<<x[2], x[3]>>] THEN 1 ELSE 0)
         ELSE (IF c.gain[x] > c.gain_level[<<x[2], x[3]>>] THEN 1 ELSE 0))
        * (1 - c.badpixel[<<x[2], x[3]>>])]]]

\* AGIPDCalib.GAIN
GAIN(g) == IF g = HIGH_GAIN THEN HG_GAIN ELSE MG_GAIN

\* AGIPDCalib.__init__, last line: data = ((adu * mask).T * GAIN).T
scale(c) ==
    [c EXCEPT !.calibrated = [g \in Branches |-> [x \in Cells |->
                                 c.adu[g][x] * c.mask[g][x] * GAIN(g)]]]

\* AGIPDCalib.save_data: the three arrays written to the calibration group.
save_data(c) ==
    [c EXCEPT !.saved = [adu |-> c.adu, mask |-> c.mask, data |-> c.calibrated]]

NoArray == [g \in Branches |-> [x \in Cells |-> 0]]

\* apply_dark: the composed data and gain arrays and the reference tables
\* are read; nothing is computed yet.
InitCalib ==
    /\ run_number \in RunNumbers
    /\ module_ids = {}
    /\ modules_mask = MaskOf({})
    /\ pulse_ids \in PulseSelections
    /\ fs = [agipd |-> [m \in ModuleIds |-> <<>>], epix |-> [n \in EpixIds |-> <<>>],
             chunk |-> 1]
    /\ pc = "calib"
    /\ err = NoError
    /\ e_trains = [n \in EpixIds |-> NoTrains]
    /\ agipd_data = NoAgipd
    /\ out = NoOutput
    /\ loop = NoLoop
    /\ \E data \in [Cells -> 0 .. MaxSample], gain \in [Cells -> GainStates],
          hg \in [RefCells -> OffsetValues], mg \in OffsetValues,
          bad \in [RefCells -> {0, 1}] :
          cal = [phase |-> "init_adu", data |-> data, gain |-> gain,
                 offset |-> (HIGH_GAIN :> hg) @@ (MEDIUM_GAIN :> [r \in RefCells |-> mg]),
                 gain_level |-> [r \in RefCells |-> 1], badpixel |-> bad,
                 adu |-> NoArray, zero_levels |-> <<>>, mask |-> NoArray,
                 calibrated |-> NoArray,
                 saved |-> [adu |-> NoArray, mask |-> NoArray, data |-> NoArray]]

CalibUnchanged ==
    UNCHANGED <<run_number, module_ids, pulse_ids, modules_mask, fs, pc, err,
                e_trains, agipd_data, out, loop>>

CalibInitAdu ==
    /\ cal.phase = "init_adu"
    /\ cal' = [init_adu(cal) EXCEPT !.phase = "flat_correct"]
    /\ CalibUnchanged

CalibFlatCorrect ==
    /\ cal.phase = "flat_correct"
    /\ cal' = [flat_correct(cal) EXCEPT !.phase = "init_mask"]
    /\ CalibUnchanged

CalibInitMask ==
    /\ cal.phase = "init_mask"
    /\ cal' = [init_mask(cal) EXCEPT !.phase = "scale"]
    /\ CalibUnchanged

CalibScale ==
    /\ cal.phase = "scale"
    /\ cal' = [scale(cal) EXCEPT !.phase = "save"]
    /\ CalibUnchanged

CalibSave ==
    /\ cal.phase = "save"
    /\ cal' = [save_data(cal) EXCEPT !.phase = "done"]
    /\ CalibUnchanged

NextCalib ==
    \/ CalibInitAdu
    \/ CalibFlatCorrect
    \/ CalibInitMask
    \/ CalibScale
    \/ CalibSave

SpecCalib == InitCalib /\ [][NextCalib]_vars

\* ------------------------------------------------------------------ claims
\* The run has ended, with an exception or by returning.
Finished == pc \in {"failed", "done"}

StrictlyIncreasing(a) == \A i, j \in DOMAIN a : i < j => a[i] < a[j]

\* The train-ID arrays of the streams that take part in the alignment: one
\* per active AGIPD module (what process_module returns) and one per EPIX
\* stream that has files (what process_epix returns).
StreamTrains ==
    {process_module(fs.agipd[m]) : m \in SeqToSet(agipd_data.descriptor)}
    \cup {process_epix(e_descriptor(n)) : n \in {k \in EpixIds : e_descriptor(k) # <<>>}}

CommonTrains == {t \in TrainIds : \A a \in StreamTrains : t \in SeqToSet(a)}

\* C1: once process_agipd and the two cross-detector intersections have run,
\* the aligned train sequence is exactly the set intersection of the streams'
\* train IDs, strictly increasing, and no longer than any stream's raw count.
C1_AlignedIsSortedIntersection ==
    (pc = "print" /\ agipd_data.bound) =>
        /\ SeqToSet(agipd_data.trains) = CommonTrains
        /\ StrictlyIncreasing(agipd_data.trains)
        /\ \A a \in StreamTrains : Len(agipd_data.trains) <= Len(a)

\* No stream of the run has a source file.
NoSourceFiles ==
    /\ \A m \in ModuleIds : fs.agipd[m] = <<>>
    /\ \A n \in EpixIds : fs.epix[n] = <<>>

NothingWritten ==
    /\ ~out.created
    /\ \A k \in DatasetKeys : ~out.vds[k].committed

\* C2: when no stream has a source file, create_vds ends with the no-data
\* error that names the run number, and the output file is never created
\* nor any dataset written.
C2_NoDataError ==
    NoSourceFiles =>
        /\ NothingWritten
        /\ \/ pc \in {"start", "check"} /\ err = NoError
           \/ pc = "failed" /\ err = [type |-> "ValueError", run |-> run_number]

C2_Witness ==
    NoSourceFiles /\ pc = "failed" /\ err.type = "ValueError" /\ err.run = run_number

\* C3: every configured module without files is deactivated (mask bit
\* cleared, absent from the active modules), and the run completes with its
\* output written whenever some configured module has files.
C3_MissingModuleDeactivated ==
    (Finished /\ \E m \in module_ids : fs.agipd[m] # <<>>) =>
        /\ pc = "done"
        /\ out.vds["data"].committed
        /\ \A m \in module_ids :
              fs.agipd[m] = <<>> =>
                  modules_mask[m] = 0 /\ m \notin SeqToSet(agipd_data.modules)

\* The AGIPD data and gain layouts as they stand: the committed datasets
\* once save_agipd has committed them, its local layouts before.
DataLayout ==
    IF out.vds["data"].committed THEN out.vds["data"].entries ELSE loop.data_layout

GainLayout ==
    IF out.vds["gain"].committed THEN out.vds["gain"].entries ELSE loop.gain_layout

\* The layout of EPIX stream n as it stands.
EpixLayout(n) ==
    IF out.vds[EpixKey(n)].committed THEN out.vds[EpixKey(n)].entries
    ELSE IF loop.stage = "epix" /\ loop.idx = n THEN loop.layout
    ELSE <<>>

\* The (column slot, file) pairs of save_agipd whose loop pass is over.
AgipdFilesDone ==
    {p \in (0 .. NumSlots - 1) \X (0 .. MaxFiles - 1) :
        /\ p[2] < Len(fs.agipd[agipd_data.descriptor[p[1] + 1]])
        /\ \/ out.vds["data"].committed
           \/ /\ loop.stage = "agipd"
              /\ p[1] < loop.idx \/ (p[1] = loop.idx /\ p[2] < loop.file)}

\* The files of EPIX stream n whose loop pass is over.
EpixFilesDone(n) ==
    {k \in 0 .. Len(e_descriptor(n)) - 1 :
        \/ out.vds[EpixKey(n)].committed
        \/ loop.stage = "epix" /\ loop.idx = n /\ k < loop.file}

\* The entries of a layout that come from one file of one column slot.
EntriesOf(layout, slot, file) ==
    SelectSeq(layout, LAMBDA e : e.slot = slot /\ e.file = file)

\* The number of rows of an AGIPD file the composer selects, counted from
\* the file alone.
SelectedAgipd(f) ==
    Cardinality({i \in DOMAIN f.trains :
                    /\ f.trains[i] \in SeqToSet(agipd_data.trains)
                    /\ f.pulses[i] \in SeqToSet(pulse_ids)})

\* The number of rows of an EPIX file selected for the trains passed in.
SelectedEpix(f, trains) ==
    Cardinality({p \in (DOMAIN trains) \X (DOMAIN f.index) : trains[p[1]] = f.index[p[2]]})

\* entries has ceil(k / c) elements that bind c, c, ..., and last the
\* remainder of k rows.
ChunkedBy(entries, k, c) ==
    /\ Len(entries) * c >= k
    /\ (Len(entries) - 1) * c < k \/ Len(entries) = 0
    /\ \A j \in DOMAIN entries :
          Len(entries[j].rows) = (IF k - (j - 1) * c < c THEN k - (j - 1) * c ELSE c)

\* C4: for every source file the composer has gone through, k selected rows
\* and chunk size c give ceil(k / c) mapping entries of c, c, ..., rows and
\* the remainder last (save_agipd and save_epix).
C4_ChunkedEntries ==
    /\ \A p \in AgipdFilesDone :
          ChunkedBy(EntriesOf(DataLayout, p[1], p[2]),
                    SelectedAgipd(fs.agipd[agipd_data.descriptor[p[1] + 1]][p[2] + 1]),
                    fs.chunk)
    /\ \A n \in EpixIds : \A k \in EpixFilesDone(n) :
          ChunkedBy(EntriesOf(EpixLayout(n), 0, k),
                    SelectedEpix(e_descriptor(n)[k + 1], e_trains[n].trains),
                    fs.chunk)

\* A file of three selected rows and chunk size 2 was bound as 2 + 1 rows.
C4_Witness ==
    /\ pc = "done"
    /\ \E p \in AgipdFilesDone :
          LET es == EntriesOf(DataLayout, p[1], p[2])
          IN  fs.chunk = 2 /\ Len(es) = 2 /\ Len(es[1].rows) = 2 /\ Len(es[2].rows) = 1
    
\* The source file an AGIPD mapping entry refers to.
SourceFile(e) == fs.agipd[e.module][e.file + 1]

\* The entry of a layout that binds output row i of a column slot, if any.
EntriesAt(layout, slot, i) ==
    {k \in DOMAIN layout :
        /\ layout[k].slot = slot
        /\ layout[k].offset <= i /\ i < layout[k].offset + Len(layout[k].rows)}

\* The (train, pulse) of the source row an entry binds to output row i.
SourceEvent(e, i) ==
    LET row == e.rows[i - e.offset + 1]
    IN  <<SourceFile(e).trains[row + 1], SourceFile(e).pulses[row + 1]>>

\* C5: once the primary detector's layouts are committed, the source row
\* bound to output row i of any active module carries the train ID and the
\* pulse ID stored at row i of the index datasets, and the rows are ordered
\* by train ID and, within a train, by pulse ID. Stated for runs whose train
\* IDs are below 2^16, which the 16-bit trainId dataset stores unchanged.
C5_RowsAligned ==
    (out.vds["data"].committed /\ \A t \in SeqToSet(agipd_data.trains) : t < UINT16) =>
        /\ \A i \in 0 .. out.frames - 1 : \A slot \in 0 .. NumSlots - 1 :
              \A k \in EntriesAt(DataLayout, slot, i) :
                  SourceEvent(DataLayout[k], i) = <<out.train_dset[i + 1], out.pulse_dset[i + 1]>>
        /\ \A i, j \in 1 .. out.frames :
              i < j => RowLess(<<out.train_dset[i], out.pulse_dset[i]>>,
                               <<out.train_dset[j], out.pulse_dset[j]>>)

\* C6: the train list save_epix composes an auxiliary dataset from is the
\* final aligned train sequence written to index/trainId.
C6_EpixTrainsAreAligned ==
    (loop.stage = "epix" /\ pc = "epix_file") =>
        e_trains[loop.idx].trains = out.index_trainId

\* C7: when create_vds returns, data/EPIX-N/data is committed exactly for
\* the auxiliary streams that have files, and the run does not fail on the
\* trains of an auxiliary stream that is absent.
C7_EpixCommittedIffPresent ==
    /\ pc = "done" =>
          \A n \in EpixIds : out.vds[EpixKey(n)].committed <=> e_descriptor(n) # <<>>
    /\ ~(pc = "failed" /\ out.created /\ err.type = "NameError")

\* C8: at every moment the gain layout has the entries of the data layout,
\* entry for entry: same column slot, same output offset, same source file
\* and source rows, the channel (0 data, 1 gain) apart.
C8_GainFollowsData ==
    /\ Len(GainLayout) = Len(DataLayout)
    /\ \A k \in DOMAIN DataLayout :
          /\ DataLayout[k].channel = 0
          /\ GainLayout[k] = [DataLayout[k] EXCEPT !.channel = 1]

\* Both layouts are committed with entries of two files and of two chunks.
C8_Witness ==
    /\ pc = "done"
    /\ \E j, k \in DOMAIN GainLayout :
          /\ GainLayout[j].file # GainLayout[k].file
          /\ GainLayout[j].offset > 0
    /\ \E j, k \in DOMAIN GainLayout :
          /\ j # k
          /\ GainLayout[j].file = GainLayout[k].file /\ GainLayout[j].slot = GainLayout[k].slot

\* First and last source row of a non-empty entry.
Span(rows) == rows[Len(rows)] - rows[1] + 1

\* C10: no mapping entry reaches, from its first to its last source row,
\* over more rows than the storage chunk size of its file.
C10_EntryWithinChunk ==
    \A layout \in {DataLayout, GainLayout, EpixLayout(1), EpixLayout(2)} :
        \A k \in DOMAIN layout :
            layout[k].rows # <<>> => Span(layout[k].rows) <= fs.chunk

\* The calibration pass with _init_mask run before _flat_correct.
SwappedCalib(c) == save_data(scale(flat_correct(init_mask(init_adu(c))))).saved

\* C9 as claimed: exchanging _flat_correct and _init_mask changes the result.
C9_OrderChangesResult ==
    cal.phase = "done" => cal.saved # SwappedCalib(cal)

\* C9 as amended: the saved arrays (adu, mask, data) are the ones the pass
\* yields with _init_mask run before _flat_correct.
C9_OrderIndependent ==
    cal.phase = "done" => cal.saved = SwappedCalib(cal)

\* A finished pass in which the zero level was not zero and the mask both
\* kept and dropped pixels of the high-gain branch.
C9_Witness ==
    /\ cal.phase = "done"
    /\ \E fm \in DOMAIN cal.zero_levels : cal.zero_levels[fm] # 0
    /\ \E x, y \in Cells : cal.saved.mask[HIGH_GAIN][x] = 1 /\ cal.saved.mask[HIGH_GAIN][y] = 0
    /\ \E x \in Cells : cal.saved.data[HIGH_GAIN][x] # 0

\* The entries of a layout that belong to one column slot, in binding order.
SlotEntries(layout, slot) == SelectSeq(layout, LAMBDA e : e.slot = slot)

\* The first entry is bound at offset 0 and every further entry at the
\* offset of the entry before it plus the rows that entry bound.
Chained(es) ==
    /\ es # <<>> => es[1].offset = 0
    /\ \A k \in 1 .. Len(es) - 1 : es[k + 1].offset = es[k].offset + Len(es[k].rows)

\* No two entries bind a common output row.
Disjoint(es) ==
    \A j, k \in DOMAIN es :
        j < k => \/ es[j].offset + Len(es[j].rows) <= es[k].offset
                 \/ es[k].offset + Len(es[k].rows) <= es[j].offset

RECURSIVE BoundRows(_)
\* The number of output rows a sequence of entries binds.
BoundRows(es) == IF es = <<>> THEN 0 ELSE Len(Head(es).rows) + BoundRows(Tail(es))

\* The layouts of the run with the number of column slots of each.
LayoutsWithSlots ==
    {<<DataLayout, NumSlots>>, <<GainLayout, NumSlots>>,
     <<EpixLayout(1), 1>>, <<EpixLayout(2), 1>>}

\* The counter of the composer equals the rows bound so far in the slot it
\* stands at.
CounterIsBoundRows ==
    /\ (loop.stage = "agipd" /\ pc = "agipd_file" /\ loop.idx < NumSlots) =>
          loop.counter = BoundRows(SlotEntries(loop.data_layout, loop.idx))
    /\ (loop.stage = "epix" /\ pc = "epix_file") =>
          loop.counter = BoundRows(loop.layout)

\* One step of the composer: inside a slot the counter does not decrease, a
\* new slot starts at 0, and a dataset is committed only by the step that
\* follows the last file, with the layout as it then stands.
CounterStep ==
    /\ (loop'.stage # "none" /\ loop'.stage = loop.stage /\ loop'.idx = loop.idx) =>
          loop'.counter >= loop.counter
    /\ (loop'.stage # "none" /\ (loop'.stage # loop.stage \/ loop'.idx # loop.idx)) =>
          loop'.counter = 0
    /\ (out'.vds["data"].committed /\ ~out.vds["data"].committed) =>
          /\ loop.idx >= NumSlots
          /\ out'.vds["data"].entries = loop.data_layout
          /\ out'.vds["gain"].entries = loop.gain_layout
    /\ \A n \in EpixIds :
          (out'.vds[EpixKey(n)].committed /\ ~out.vds[EpixKey(n)].committed) =>
              /\ loop.idx = n /\ loop.file >= Len(e_descriptor(n))
              /\ out'.vds[EpixKey(n)].entries = loop.layout

\* C11: in every column slot of every layout the entries are bound at
\* offsets that start at 0 and advance by the rows of the entry before, so
\* their output ranges are disjoint; the counter equals the rows bound so far
\* and never decreases inside a slot; a layout is committed only after the
\* last file has been bound.
C11_OffsetsAdvance ==
    /\ [](/\ \A ls \in LayoutsWithSlots : \A slot \in 0 .. ls[2] - 1 :
                /\ Chained(SlotEntries(ls[1], slot))
                /\ Disjoint(SlotEntries(ls[1], slot))
          /\ CounterIsBoundRows)
    /\ [][CounterStep]_vars

\* The data layout is committed with an entry at offset 2 and the layout of
\* EPIX-1 with an entry at offset 1.
C11_Witness ==
    /\ out.vds["data"].committed /\ out.vds["epix1"].committed
    /\ \E k \in DOMAIN DataLayout : DataLayout[k].offset = 2
    /\ \E k \in DOMAIN EpixLayout(1) : EpixLayout(1)[k].offset = 1

\* The configured modules that have files but not one aligned train: in
\* every file INDEX/trainId and the header trainId have nothing in common.
ZeroAligned ==
    {m \in module_ids : fs.agipd[m] # <<>> /\ process_module(fs.agipd[m]) = <<>>}

\* The configured modules that have files and aligned trains.
Remaining ==
    {m \in module_ids : fs.agipd[m] # <<>> /\ process_module(fs.agipd[m]) # <<>>}

\* The trains common to the remaining modules and to the EPIX streams that
\* have files.
RemainingTrains ==
    {t \in TrainIds :
        /\ \A m \in Remaining : t \in SeqToSet(process_module(fs.agipd[m]))
        /\ \A n \in EpixIds :
              e_descriptor(n) # <<>> => t \in SeqToSet(process_epix(e_descriptor(n)))}

\* C12: once process_agipd has run, a configured module whose files give
\* zero aligned trains is deactivated (mask bit cleared, absent from the
\* active modules) when another module remains; the aligned trains are those
\* common to the remaining modules, and the run does not end on the empty
\* train list such a module would leave.
C12_ZeroTrainModuleDeactivated ==
    (agipd_data.bound /\ ZeroAligned # {} /\ Remaining # {}) =>
        /\ \A m \in ZeroAligned :
              modules_mask[m] = 0 /\ m \notin SeqToSet(agipd_data.modules)
        /\ pc = "print" => SeqToSet(agipd_data.trains) = RemainingTrains
        /\ RemainingTrains # {} => ~(pc = "failed" /\ err.type = "IndexError")

\* The first dimension save_epix declares for the layout of stream n.
EpixShape(n) == Len(e_trains[n].trains)

\* C13: a committed layout has, in each of its column slots, as many output
\* rows bound as its declared first dimension (frames for the AGIPD data and
\* gain, the number of trains passed in for an EPIX stream), and no entry of
\* a layout, committed or being composed, reaches past the declared shape.
C13_BoundRowsEqualShape ==
    /\ out.vds["data"].committed =>
          \A slot \in 0 .. NumSlots - 1 :
              /\ BoundRows(SlotEntries(DataLayout, slot)) = out.frames
              /\ BoundRows(SlotEntries(GainLayout, slot)) = out.frames
    /\ \A n \in EpixIds :
          /\ out.vds[EpixKey(n)].committed => BoundRows(EpixLayout(n)) = EpixShape(n)
          /\ InsideShape(EpixLayout(n), EpixShape(n))
    /\ InsideShape(DataLayout, out.frames) /\ InsideShape(GainLayout, out.frames)

\* C14: once the AGIPD layouts are committed, row i of the trainId index
\* dataset holds the train ID of the source row bound to output row i, in
\* full.
C14_TrainIdStoredInFull ==
    out.vds["data"].committed =>
        \A i \in 0 .. out.frames - 1 : \A slot \in 0 .. NumSlots - 1 :
            \A k \in EntriesAt(DataLayout, slot, i) :
                out.train_dset[i + 1] = SourceEvent(DataLayout[k], i)[1]

=============================================================================
